---- MODULE Spec2Model ----
(***************************************************************************)
(* Precedence graphs from data lineage (dag.py): the construction of the   *)
(* graph from lineage records with its cycle-elimination loop, Bernstein's *)
(* conditions on a pair of nodes, and the clustering of a topological      *)
(* order into groups of tasks.                                             *)
(***************************************************************************)
EXTENDS Integers, Sequences, FiniteSets, TLC

VARIABLES lineage, links, G, pc, order, idx, clusters, args, result

vars == <<lineage, links, G, pc, order, idx, clusters, args, result>>

(***************************************************************************)
(* Bounds of the model.                                                    *)
(***************************************************************************)
\* graphs handed to clustering() and bernstein() have at most MaxNodes nodes
MaxNodes == 3
\* artifacts named by the lineage records are 1..MaxArtifact
MaxArtifact == 2
\* the records of one batch name at most MaxMentions artifacts in all, the
\* inputs and the outputs of every record counted
MaxMentions == 6

----------------------------------------------------------------------------
(***************************************************************************)
(* Sequences and sets.                                                     *)
(***************************************************************************)
Range(s) == {s[i] : i \in DOMAIN s}

RECURSIVE SumLen(_)
SumLen(ss) == IF ss = <<>> THEN 0 ELSE Len(Head(ss)) + SumLen(Tail(ss))

RECURSIVE Flatten(_)
Flatten(ss) == IF ss = <<>> THEN <<>> ELSE Head(ss) \o Flatten(Tail(ss))

\* the last element of a non-empty list: seq[-1]
Last(s) == s[Len(s)]

----------------------------------------------------------------------------
(***************************************************************************)
(* networkx.DiGraph, as far as dag.py uses it.  A graph is a record        *)
(*   node  : the nodes, in insertion order                                 *)
(*   adj   : the edges <<u, v>>, in insertion order                        *)
(*   links : the 'links' attribute of each edge                            *)
(***************************************************************************)
EmptyGraph == [node |-> <<>>, adj |-> <<>>, links |-> <<>>]

\* collections.defaultdict(lambda: collections.defaultdict(list)), empty: the
\* keys in insertion order and the two lists of names of each key
EmptyLinks == [keys |-> <<>>, inputs |-> <<>>, outputs |-> <<>>]

Nodes(g) == Range(g.node)

Edges(g) == Range(g.adj)

\* len(G)
NodeCount(g) == Len(g.node)

has_edge(g, u, v) == <<u, v>> \in Edges(g)

predecessors(g, n) == {e[1] : e \in {d \in Edges(g) : d[2] = n}}

successors(g, n) == {e[2] : e \in {d \in Edges(g) : d[1] = n}}

\* the orders networkx.topological_sort may yield: every arrangement of the
\* nodes in which each edge points from an earlier to a later node (none
\* when the graph has a cycle)
RECURSIVE LinearExtensions(_, _)
LinearExtensions(ns, es) ==
    IF ns = {} THEN {<<>>}
    ELSE UNION {{<<s>> \o o : o \in LinearExtensions(ns \ {s},
                                        {e \in es : e[1] # s /\ e[2] # s})}
                : s \in {n \in ns : \A e \in es : e[2] # n}}

\* a sort that yields the consumers first
topological_sort_reversed(g) ==
    LinearExtensions(Nodes(g), {<<e[2], e[1]>> : e \in Edges(g)})

topological_sort(g) == LinearExtensions(Nodes(g), Edges(g))

\* a check that looks for self-loops only
no_selfloop(g) == \A e \in Edges(g) : e[1] # e[2]

is_directed_acyclic_graph(g) == topological_sort(g) # {}

\* G.add_edge(u, v, links={link}) for an edge the graph does not have
add_edge(g, u, v, link) ==
    LET withU == IF u \in Nodes(g) THEN g.node ELSE Append(g.node, u)
        withV == IF v \in Range(withU) THEN withU ELSE Append(withU, v)
    IN  [node |-> withV,
         adj |-> Append(g.adj, <<u, v>>),
         links |-> g.links @@ (<<u, v>> :> {link})]

\* G.selfloop_edges()
selfloop_edges(g) == {e \in Edges(g) : e[1] = e[2]}

\* a repair that turns the edges es around instead of removing them
reverse_edges(g, es) ==
    LET adj == [i \in DOMAIN g.adj |->
                  IF g.adj[i] \in es THEN <<g.adj[i][2], g.adj[i][1]>> ELSE g.adj[i]]
    IN  [node |-> g.node, adj |-> adj, links |-> [e \in Range(adj) |-> {}]]

\* G.remove_edges_from(es): the nodes stay
remove_edges_from(g, es) ==
    [node |-> g.node,
     adj |-> SelectSeq(g.adj, LAMBDA e : e \notin es),
     links |-> [e \in Edges(g) \ es |-> g.links[e]]]

\* list(G.edges(data=True)): the edges by source node in node order, each
\* node's edges in insertion order
RECURSIVE EdgesFrom(_, _)
EdgesFrom(g, ns) ==
    IF ns = <<>> THEN <<>>
    ELSE SelectSeq(g.adj, LAMBDA e : e[1] = Head(ns)) \o EdgesFrom(g, Tail(ns))

edges_data(g) ==
    LET es == EdgesFrom(g, g.node)
    IN  [i \in 1..Len(es) |-> <<es[i][1], es[i][2], g.links[es[i]]>>]

\* the simple paths of the graph with k nodes, as sequences of nodes
RECURSIVE SimplePaths(_, _)
SimplePaths(g, k) ==
    IF k = 1 THEN {<<n>> : n \in Nodes(g)}
    ELSE {Append(p, n) : p \in SimplePaths(g, k - 1), n \in Nodes(g)}
         \cap {q \in [1..k -> Nodes(g)] :
                 /\ \A i \in 1..(k - 1) : q[i] # q[k]
                 /\ has_edge(g, q[k - 1], q[k])}

\* the edges of the cycle that closes the path p
CycleEdges(p) == {<<p[i], p[(i % Len(p)) + 1]>> : i \in 1..Len(p)}

\* the cycles networkx.find_cycle may return, each as its set of edges: the
\* simple directed cycles of the graph, a self-loop being one
find_cycle(g) ==
    {CycleEdges(p) : p \in {q \in UNION {SimplePaths(g, k) : k \in 1..NodeCount(g)} :
                              has_edge(g, q[Len(q)], q[1])}}

----------------------------------------------------------------------------
(***************************************************************************)
(* _window(seq, 2): the pairs of consecutive elements of seq, none when    *)
(* seq has fewer than two elements.                                        *)
(***************************************************************************)
_window(seq) ==
    [i \in 1..(IF Len(seq) >= 2 THEN Len(seq) - 1 ELSE 0) |-> <<seq[i], seq[i + 1]>>]

(***************************************************************************)
(* PrecedenceGraph.bernstein(a, b): the first two of Bernstein's           *)
(* conditions on the neighbourhoods of a and b, the node itself counted    *)
(* among its predecessors and its successors.                              *)
(***************************************************************************)
\* the guard of bernstein: it raises NetworkXUnfeasible
NotInGraph(g, a, b) == a \notin Nodes(g) \/ b \notin Nodes(g)

\* bernstein without its second condition, the anti-dependency
bernstein_flow_only(g, a, b) ==
    (successors(g, a) \cup {a}) \cap (predecessors(g, b) \cup {b}) = {}

\* the value bernstein returns when it does not raise
bernstein(g, a, b) ==
    LET a_in == predecessors(g, a) \cup {a}
        a_out == successors(g, a) \cup {a}
        b_in == predecessors(g, b) \cup {b}
        b_out == successors(g, b) \cup {b}
    IN  (a_out \cap b_in = {}) /\ (a_in \cap b_out = {})

(***************************************************************************)
(* The body of the loop of clustering() for one window (u, v).             *)
(***************************************************************************)
scan(g, cs, u, v) ==
    IF ~bernstein(g, u, v)
    THEN IF cs = <<>> \/ u \notin Range(Last(cs))
         THEN Append(cs, <<u>>)
         ELSE Append(cs, <<v>>)
    ELSE IF cs # <<>> /\ u \in Range(Last(cs))
         THEN [cs EXCEPT ![Len(cs)] = Append(@, v)]
         ELSE Append(cs, <<u, v>>)

----------------------------------------------------------------------------
(***************************************************************************)
(* Clustering a graph.  The graph is any directed graph without self-loops *)
(* on at most MaxNodes nodes, or the graph of test_clustering.             *)
(***************************************************************************)
NodeNames == <<"s1", "s2", "s3", "s4", "s5", "s6">>

RECURSIVE AdjList(_, _, _)
AdjList(n, E, k) ==
    IF k >= n * n THEN <<>>
    ELSE LET e == <<(k \div n) + 1, (k % n) + 1>>
         IN  (IF e \in E THEN <<<<NodeNames[e[1]], NodeNames[e[2]]>>>> ELSE <<>>)
             \o AdjList(n, E, k + 1)

\* the graph on the first n nodes with the edges E, given by node numbers
Graph(n, E) ==
    LET adj == AdjList(n, E, 0)
    IN  [node |-> [i \in 1..n |-> NodeNames[i]],
         adj |-> adj,
         links |-> [e \in Range(adj) |-> {}]]

\* PrecedenceGraphTest.test_case: s1 -> s2, s3; s2 -> s4; s3 -> s4; s4 -> s5
test_case == Graph(5, {<<1, 2>>, <<1, 3>>, <<2, 4>>, <<3, 4>>, <<4, 5>>})

\* the names bernstein is called with: the nodes of the graphs and one more
CallNames == {NodeNames[i] : i \in 1..(MaxNodes + 1)}

NoCall == <<>>

ClusterInit ==
    /\ \/ \E n \in 0..MaxNodes :
             \E E \in SUBSET {e \in (1..n) \X (1..n) : e[1] # e[2]} : G = Graph(n, E)
       \/ G = test_case
    /\ lineage = <<>>
    /\ links = EmptyLinks
    /\ pc = "start"
    /\ order = <<>>
    /\ idx = 1
    /\ clusters = <<>>
    /\ args = NoCall
    /\ result = <<>>

\* a call of G.bernstein(a, b), a and b any two names
Bernstein(a, b) ==
    /\ pc = "start"
    /\ args' = <<a, b>>
    /\ IF NotInGraph(G, a, b)
       THEN pc' = "NetworkXUnfeasible" /\ result' = result
       ELSE pc' = "bernstein" /\ result' = bernstein(G, a, b)
    /\ UNCHANGED <<lineage, links, G, order, idx, clusters>>

\* clustering(): the topological sort of the graph
TopologicalSort ==
    /\ pc = "start"
    /\ is_directed_acyclic_graph(G)
    /\ order' \in topological_sort(G)
    /\ clusters' = <<>>
    /\ idx' = 1
    /\ pc' = "scan"
    /\ UNCHANGED <<lineage, links, G, args, result>>

\* clustering() of a graph with a cycle: topological_sort raises
TopologicalSortRaises ==
    /\ pc = "start"
    /\ ~is_directed_acyclic_graph(G)
    /\ pc' = "NetworkXUnfeasible"
    /\ UNCHANGED <<lineage, links, G, order, idx, clusters, args, result>>

\* clustering(): one iteration of the loop over the windows of the order
ScanWindow ==
    /\ pc = "scan"
    /\ idx <= Len(_window(order))
    /\ clusters' = scan(G, clusters, _window(order)[idx][1], _window(order)[idx][2])
    /\ idx' = idx + 1
    /\ UNCHANGED <<lineage, links, G, pc, order, args, result>>

\* the two assertions that end clustering()
Scheduled(g, cs) == Len(cs) <= NodeCount(g) /\ SumLen(cs) = NodeCount(g)

ClusteringReturns ==
    /\ pc = "scan"
    /\ idx > Len(_window(order))
    /\ Scheduled(G, clusters)
    /\ result' = clusters
    /\ pc' = "clustered"
    /\ UNCHANGED <<lineage, links, G, order, idx, clusters, args>>

ClusteringAsserts ==
    /\ pc = "scan"
    /\ idx > Len(_window(order))
    /\ ~Scheduled(G, clusters)
    /\ pc' = "AssertionError"
    /\ UNCHANGED <<lineage, links, G, order, idx, clusters, args, result>>

ClusterNext ==
    \/ \E a, b \in CallNames : Bernstein(a, b)
    \/ TopologicalSort
    \/ TopologicalSortRaises
    \/ ScanWindow
    \/ ClusteringReturns
    \/ ClusteringAsserts

ClusterSpec == ClusterInit /\ [][ClusterNext]_vars

----------------------------------------------------------------------------
(***************************************************************************)
(* from_lineage(lineage).  A record is <<name, inputs, outputs>>.  The     *)
(* records are those of at most three tasks a, b, c, in this order, whose  *)
(* inputs and outputs are ascending lists of artifacts of 1..MaxArtifact,  *)
(* or the records of test_lineage.                                         *)
(***************************************************************************)
TaskNames == <<"a", "b", "c">>

Tasks == Range(TaskNames)

Artifacts == 1..MaxArtifact

RECURSIVE Ascending(_, _)
Ascending(S, k) ==
    IF k > MaxArtifact THEN <<>>
    ELSE (IF k \in S THEN <<k>> ELSE <<>>) \o Ascending(S, k + 1)

ArtifactLists == {Ascending(S, 1) : S \in SUBSET Artifacts}

\* the records of the first n tasks with the inputs and outputs io
Records(n, io) == [i \in 1..n |-> <<TaskNames[i], io[i][1], io[i][2]>>]

RECURSIVE Mentions(_)
Mentions(recs) ==
    IF recs = <<>> THEN 0
    ELSE Len(Head(recs)[2]) + Len(Head(recs)[3]) + Mentions(Tail(recs))

\* the records of PrecedenceGraphTest.test_lineage
test_lineage ==
    <<<<"a", <<1, 2, 3>>, <<4, 5, 6>>>>,
      <<"b", <<4, 5, 6>>, <<>>>>,
      <<"c", <<5>>, <<>>>>>>

\* links[k], created empty at the first use of the key k
Touch(L, k) ==
    IF k \in Range(L.keys) THEN L
    ELSE [keys |-> Append(L.keys, k),
          inputs |-> L.inputs @@ (k :> <<>>),
          outputs |-> L.outputs @@ (k :> <<>>)]

\* for i in inputs: links[i]['inputs'].append(name)
RECURSIVE AppendInputs(_, _, _)
AppendInputs(L, name, inputs) ==
    IF inputs = <<>> THEN L
    ELSE AppendInputs([Touch(L, Head(inputs)) EXCEPT !.inputs[Head(inputs)] = Append(@, name)],
                      name, Tail(inputs))

\* for o in outputs: links[o]['outputs'].append(name)
RECURSIVE AppendOutputs(_, _, _)
AppendOutputs(L, name, outputs) ==
    IF outputs = <<>> THEN L
    ELSE AppendOutputs([Touch(L, Head(outputs)) EXCEPT !.outputs[Head(outputs)] = Append(@, name)],
                       name, Tail(outputs))

\* a loop body that takes the inputs for the outputs
AggregateRecordSwapped(L, rec) ==
    AppendOutputs(AppendInputs(L, rec[1], rec[3]), rec[1], rec[2])

\* the body of the loop over the records
AggregateRecord(L, rec) == AppendOutputs(AppendInputs(L, rec[1], rec[2]), rec[1], rec[3])

RECURSIVE AggregateAll(_, _)
AggregateAll(L, recs) ==
    IF recs = <<>> THEN L
    ELSE AggregateAll(AggregateRecord(L, Head(recs)), Tail(recs))

\* an innermost loop body whose edges point from the reader to the writer
AddLinkReversed(g, link, source, target) ==
    IF has_edge(g, source, target)
    THEN [g EXCEPT !.links[<<source, target>>] = @ \cup {link}]
    ELSE add_edge(g, source, target, link)

\* the body of the innermost loop that adds the edges
AddLink(g, link, source, target) ==
    IF has_edge(g, target, source)
    THEN [g EXCEPT !.links[<<target, source>>] = @ \cup {link}]
    ELSE add_edge(g, target, source, link)

\* for target in v['outputs']
RECURSIVE ForTargets(_, _, _, _)
ForTargets(g, link, source, targets) ==
    IF targets = <<>> THEN g
    ELSE ForTargets(AddLink(g, link, source, Head(targets)), link, source, Tail(targets))

\* for source in v['inputs']
RECURSIVE ForSources(_, _, _, _)
ForSources(g, link, sources, targets) ==
    IF sources = <<>> THEN g
    ELSE ForSources(ForTargets(g, link, Head(sources), targets), link, Tail(sources), targets)

\* for link, v in links.items()
RECURSIVE ForLinks(_, _, _)
ForLinks(g, L, keys) ==
    IF keys = <<>> THEN g
    ELSE ForLinks(ForSources(g, Head(keys), L.inputs[Head(keys)], L.outputs[Head(keys)]),
                  L, Tail(keys))

LineageInit ==
    /\ \/ \E n \in 0..Len(TaskNames) :
             \E io \in [1..n -> ArtifactLists \X ArtifactLists] :
                /\ Mentions(Records(n, io)) <= MaxMentions
                /\ lineage = Records(n, io)
       \/ lineage = test_lineage
    /\ links = EmptyLinks
    /\ G = EmptyGraph
    /\ pc = "lineage"
    /\ order = <<>>
    /\ idx = 1
    /\ clusters = <<>>
    /\ args = NoCall
    /\ result = <<>>

\* the loop over the records, which fills links
Aggregate ==
    /\ pc = "lineage"
    /\ links' = AggregateAll(links, lineage)
    /\ pc' = "links"
    /\ UNCHANGED <<lineage, G, order, idx, clusters, args, result>>

\* the loops over links, which add the edges to a new graph
BuildEdges ==
    /\ pc = "links"
    /\ G' = ForLinks(EmptyGraph, links, links.keys)
    /\ pc' = "selfloops"
    /\ UNCHANGED <<lineage, links, order, idx, clusters, args, result>>

\* G.remove_edges_from(G.selfloop_edges())
RemoveSelfLoops ==
    /\ pc = "selfloops"
    /\ G' = remove_edges_from(G, selfloop_edges(G))
    /\ pc' = "loop"
    /\ UNCHANGED <<lineage, links, order, idx, clusters, args, result>>

\* one iteration of the while loop: the edges of one cycle are removed
RemoveCycle ==
    /\ pc = "loop"
    /\ ~is_directed_acyclic_graph(G)
    /\ \E cycle \in find_cycle(G) : G' = remove_edges_from(G, cycle)
    /\ UNCHANGED <<lineage, links, pc, order, idx, clusters, args, result>>

\* the while loop ends and from_lineage returns G
LineageReturns ==
    /\ pc = "loop"
    /\ is_directed_acyclic_graph(G)
    /\ result' = G
    /\ pc' = "returned"
    /\ UNCHANGED <<lineage, links, G, order, idx, clusters, args>>

LineageNext ==
    \/ Aggregate
    \/ BuildEdges
    \/ RemoveSelfLoops
    \/ RemoveCycle
    \/ LineageReturns

LineageSpec == LineageInit /\ [][LineageNext]_vars

----------------------------------------------------------------------------
(***************************************************************************)
(* Properties of clustering() and bernstein(), under ClusterSpec.          *)
(***************************************************************************)
\* clustering() has ended: it returned or one of its assertions failed
ClusteringEnded == pc \in {"clustered", "AssertionError"}

\* the numbers of the clusters of the schedule cs that hold the node n
ClustersOf(cs, n) == {i \in DOMAIN cs : n \in Range(cs[i])}

\* C1: on an acyclic graph with at least one node clustering() returns (its
\* assertions do not fail) a schedule that holds every node in exactly one
\* cluster, the sizes of the clusters adding up to the number of nodes and
\* the number of clusters being at most the number of nodes.
C1_EveryNodeInOneCluster ==
    (ClusteringEnded /\ NodeCount(G) >= 1) =>
        /\ pc = "clustered"
        /\ SumLen(result) = NodeCount(G)
        /\ Len(result) <= NodeCount(G)
        /\ \A n \in Nodes(G) : Cardinality(ClustersOf(result, n)) = 1

\* C2: on a graph without nodes clustering() returns the empty schedule, and
\* on a graph with the single node x it returns [[x]].
C2_FewerThanTwoNodes ==
    (ClusteringEnded /\ NodeCount(G) < 2) =>
        /\ pc = "clustered"
        /\ result = [i \in 1..NodeCount(G) |-> <<G.node[i]>>]

\* C3: in a returned schedule any two distinct nodes of one cluster satisfy
\* bernstein, adjacent in the topological order or not.
C3_ClustersPairwiseSafe ==
    pc = "clustered" =>
        \A i \in DOMAIN result : \A a, b \in Range(result[i]) :
            a # b => bernstein(G, a, b)

\* C4: in a returned schedule, for every edge (p, c) of the graph, the
\* cluster of p does not come after the cluster of c.
C4_EdgesFollowSchedule ==
    pc = "clustered" =>
        \A e \in Edges(G) :
            /\ ClustersOf(result, e[1]) # {}
            /\ ClustersOf(result, e[2]) # {}
            /\ \A i \in ClustersOf(result, e[1]) : \A j \in ClustersOf(result, e[2]) : i <= j

\* a schedule was returned for a graph of which one edge joins two clusters
\* and another graph node stands alone between or beside them
C4_Witness ==
    /\ pc = "clustered"
    /\ Len(result) >= 2
    /\ \E e \in Edges(G) :
          \E i \in ClustersOf(result, e[1]) : \E j \in ClustersOf(result, e[2]) : i < j

\* C8: a call bernstein(a, b) on two nodes of a graph returns what
\* bernstein(b, a) returns.
C8_BernsteinSymmetric ==
    pc = "bernstein" => result = bernstein(G, args[2], args[1])

\* bernstein(a, b) returned false for an edge a -> b whose reverse is no edge
C8_Witness ==
    /\ pc = "bernstein"
    /\ result = FALSE
    /\ has_edge(G, args[1], args[2])
    /\ ~has_edge(G, args[2], args[1])

\* C9: on an acyclic graph with at least two nodes clustering() returns the
\* topological order cut into consecutive runs: the clusters concatenated
\* are the order, and two nodes adjacent in the order share a cluster
\* exactly when bernstein holds of them; the graph of test_clustering
\* clusters as [s1], {s2, s3}, [s4], [s5].
C9_RunsOfTopologicalOrder ==
    (ClusteringEnded /\ NodeCount(G) >= 2) =>
        /\ pc = "clustered"
        /\ Flatten(result) = order
        /\ \A i \in 1..(Len(order) - 1) :
              (ClustersOf(result, order[i]) = ClustersOf(result, order[i + 1]))
                  <=> bernstein(G, order[i], order[i + 1])
        /\ G = test_case =>
              [i \in DOMAIN result |-> Range(result[i])]
                  = <<{"s1"}, {"s2", "s3"}, {"s4"}, {"s5"}>>

----------------------------------------------------------------------------
(***************************************************************************)
(* Properties of from_lineage(), under LineageSpec.                        *)
(***************************************************************************)
\* the artifacts the records of the task p name as inputs, and as outputs
InputsOf(p) ==
    UNION {Range(lineage[i][2]) : i \in {j \in DOMAIN lineage : lineage[j][1] = p}}

OutputsOf(p) ==
    UNION {Range(lineage[i][3]) : i \in {j \in DOMAIN lineage : lineage[j][1] = p}}

\* the artifacts p writes and c reads
Shared(p, c) == OutputsOf(p) \cap InputsOf(c)

\* the pairs of distinct tasks the records relate as producer and consumer
Induced == {e \in Tasks \X Tasks : e[1] # e[2] /\ Shared(e[1], e[2]) # {}}

InducesNoCycle == LinearExtensions(Tasks, Induced) # {}

C6_NoSelfLoopNoCycle ==
    pc = "returned" =>
        /\ \A n \in Nodes(result) : ~has_edge(result, n, n)
        /\ find_cycle(result) = {}

\* a graph was returned for records in which a task reads its own output and
\* which induce a cycle among distinct tasks
C6_Witness ==
    /\ pc = "returned"
    /\ \E p \in Tasks : Shared(p, p) # {}
    /\ ~InducesNoCycle

C10_LoopTerminates ==
    [][pc = "loop" =>
          /\ pc' \in {"loop", "returned"}
          /\ G'.node = G.node
          /\ Edges(G') \subseteq Edges(G)
          /\ pc' = "loop" => Cardinality(Edges(G')) < Cardinality(Edges(G))
          /\ pc' = "loop" => (is_directed_acyclic_graph(G') \/ find_cycle(G') # {})
          /\ pc' = "returned" => is_directed_acyclic_graph(G')]_vars

\* the loop has removed a cycle, and the graph has more than one cycle left
\* to pick from
C10_Witness ==
    /\ pc = "loop"
    /\ Edges(G) # Induced
    /\ Cardinality(find_cycle(G)) >= 2

====
